---- MODULE Spec2Model ----
(***************************************************************************)
(* A model of license_header_hook.py: the comment style registry, the      *)
(* header formatter / detector / remover of LicenseHeaderManager, one run  *)
(* of process_file on a file, and the batch loop of main().                *)
(*                                                                         *)
(* A Python str is a sequence of one-character strings; "\n" is the line   *)
(* separator.  The only whitespace characters of the model's alphabet are  *)
(* the space and the newline.                                              *)
(***************************************************************************)
EXTENDS Integers, Sequences, FiniteSets, TLC

----------------------------------------------------------------------------
(* Python str primitives used by the source.                               *)

NL == "\n"

\* the characters str.strip() / str.rstrip() remove
Whitespace == {" ", NL}

\* the value None; no str of the model equals it (its element is not one character)
None == <<"None">>

\* Python truthiness of a str-or-None value: None and "" are falsy
Truthy(x) == x # None /\ x # <<>>

\* s.startswith(p)
StartsWith(s, p) == Len(p) <= Len(s) /\ SubSeq(s, 1, Len(p)) = p

\* s.endswith(p)
EndsWith(s, p) == Len(p) <= Len(s) /\ SubSeq(s, Len(s) - Len(p) + 1, Len(s)) = p

\* p in s  (substring test)
Contains(s, p) == \E i \in 1..(Len(s) - Len(p) + 1) : SubSeq(s, i, i + Len(p) - 1) = p

\* s.lstrip() restricted to the character set cs
LStripSet(s, cs) ==
    IF \A i \in 1..Len(s) : s[i] \in cs THEN <<>>
    ELSE LET k == CHOOSE i \in 1..Len(s) : s[i] \notin cs /\ \A j \in 1..(i - 1) : s[j] \in cs
         IN  SubSeq(s, k, Len(s))

\* s.rstrip() restricted to the character set cs
RStripSet(s, cs) ==
    IF \A i \in 1..Len(s) : s[i] \in cs THEN <<>>
    ELSE LET k == CHOOSE i \in 1..Len(s) : s[i] \notin cs /\ \A j \in (i + 1)..Len(s) : s[j] \in cs
         IN  SubSeq(s, 1, k)

\* s.rstrip()
RStrip(s) == RStripSet(s, Whitespace)

\* s.strip()
Strip(s) == LStripSet(RStripSet(s, Whitespace), Whitespace)

\* s.lstrip("\n")
LStripNL(s) == LStripSet(s, {NL})

\* s[n:]
DropPrefix(s, n) == SubSeq(s, n + 1, Len(s))

\* s.split("\n"): always at least one line
RECURSIVE Split(_)
Split(s) ==
    IF \A i \in 1..Len(s) : s[i] # NL THEN <<s>>
    ELSE LET k == CHOOSE i \in 1..Len(s) : s[i] = NL /\ \A j \in 1..(i - 1) : s[j] # NL
         IN  <<SubSeq(s, 1, k - 1)>> \o Split(SubSeq(s, k + 1, Len(s)))

\* "\n".join(lines)
RECURSIVE Join(_)
Join(lines) ==
    IF lines = <<>> THEN <<>>
    ELSE IF Len(lines) = 1 THEN lines[1]
    ELSE lines[1] \o <<NL>> \o Join(Tail(lines))

\* lines[0].startswith("#!") for a non-empty list of lines
IsShebang(line) == StartsWith(line, <<"#", "!">>)

----------------------------------------------------------------------------
(* CommentRegistry                                                          *)

Hash    == [start |-> <<"#">>, middle |-> <<"#">>, end |-> <<"#">>]
CBlock  == [start |-> <<"/", "*">>, middle |-> <<" ", "*">>, end |-> <<" ", "*", "/">>]
Html    == [start |-> <<"<", "!", "-", "-">>, middle |-> <<" ", " ">>, end |-> <<"-", "-", ">">>]
Vhdl    == [start |-> <<"/", "*">>, middle |-> <<>>, end |-> <<"*", "/">>]
Slashes == [start |-> <<"/", "/">>, middle |-> <<"/", "/">>, end |-> <<"/", "/">>]
Mkdown  == [start |-> <<"<", "!", "-", "-">>, middle |-> <<>>, end |-> <<"-", "-", ">">>]

DEFAULT_MAPPINGS ==
    [e \in {".py", ".pyx", ".sh", ".bash", ".yml", ".yaml", ".hcl", ".tf"} |-> Hash]
    @@ [e \in {".js", ".ts", ".jsx", ".tsx", ".java", ".c", ".cpp", ".cc", ".h",
               ".hpp", ".go", ".rs", ".css", ".scss"} |-> CBlock]
    @@ [e \in {".html", ".xml"} |-> Html]
    @@ [e \in {".vhdl", ".vhd"} |-> Vhdl]
    @@ [e \in {".v", ".sv"} |-> Slashes]
    @@ [e \in {".md"} |-> Mkdown]

\* CommentRegistry.__init__: the defaults, overridden key by key by the custom mappings
Mappings(custom_mappings) == custom_mappings @@ DEFAULT_MAPPINGS

\* str.lower() on the suffixes of the model
Lower(ext) ==
    CASE ext = ".PY" -> ".py"
      [] ext = ".C"  -> ".c"
      [] ext = ".TXT" -> ".txt"
      [] OTHER -> ext

\* the value None where a comment style is expected
NoStyle == [start |-> None, middle |-> None, end |-> None]

\* CommentRegistry.get_comment_style, given the path's suffix
get_comment_style(mappings, suffix) ==
    IF Lower(suffix) \in DOMAIN mappings THEN mappings[Lower(suffix)] ELSE NoStyle

----------------------------------------------------------------------------
(* LicenseHeaderManager: pure functions                                     *)

\* one output line of create_header_comment: f"{prefix} {line}".rstrip()
PrefixLine(prefix, line) == RStrip(prefix \o <<" ">> \o line)

PrefixAll(prefix, lines) == [i \in 1..Len(lines) |-> PrefixLine(prefix, lines[i])]

\* the test of create_header_comment that selects the single-line form
WrapIsSingleLine(cs) == cs.start = cs.middle /\ cs.middle = cs.end

create_header_comment(content, cs) ==
    LET lines == Split(content) IN
    IF WrapIsSingleLine(cs)
    THEN Join(PrefixAll(cs.start, lines))
    ELSE Join(<<cs.start>> \o PrefixAll(cs.middle, lines) \o <<cs.end>>)

\* "Skip shebang if present": the index (1-based) of the first line after it
AfterShebang(lines) == IF IsShebang(lines[1]) THEN 2 ELSE 1

\* "Skip empty lines": the first index >= i whose line is not blank, or Len+1
RECURSIVE SkipEmpty(_, _)
SkipEmpty(lines, i) ==
    IF i <= Len(lines) /\ Strip(lines[i]) = <<>> THEN SkipEmpty(lines, i + 1) ELSE i

\* the single-line loop of extract_existing_header (lines 147-154)
RECURSIVE SingleLineScan(_, _, _)
SingleLineScan(lines, i, cs) ==
    IF i > Len(lines) THEN <<>>
    ELSE LET line == Strip(lines[i]) IN
         IF StartsWith(line, cs.start) THEN <<line>> \o SingleLineScan(lines, i + 1, cs)
         ELSE IF line = <<>> THEN SingleLineScan(lines, i + 1, cs)
         ELSE <<>>

\* the test of the multi-line loop of extract_existing_header that ends the block
ExtractEndTest(rawLine, cs) == Contains(Strip(rawLine), cs.end)

\* the multi-line loop of extract_existing_header (lines 165-170)
RECURSIVE MultiLineScan(_, _, _)
MultiLineScan(lines, i, cs) ==
    IF i > Len(lines) THEN <<>>
    ELSE IF ExtractEndTest(lines[i], cs) THEN <<lines[i]>>
    ELSE <<lines[i]>> \o MultiLineScan(lines, i + 1, cs)

extract_existing_header(file_content, cs) ==
    LET lines      == Split(file_content)
        start_idx  == SkipEmpty(lines, AfterShebang(lines))
    IN
    IF start_idx > Len(lines) THEN None
    ELSE IF ~StartsWith(Strip(lines[start_idx]), cs.start) THEN None
    ELSE LET header_lines == IF cs.start = cs.middle
                             THEN SingleLineScan(lines, start_idx, cs)
                             ELSE MultiLineScan(lines, start_idx, cs)
         IN  IF header_lines # <<>> THEN Join(header_lines) ELSE None

\* stripped[len(prefix):].strip()
AfterPrefix(stripped, prefix) == Strip(DropPrefix(stripped, Len(prefix)))

\* stripped[: -len(suffix)]; Python's s[:-0] is the empty str
BeforeSuffix(stripped, suffix) ==
    IF Len(suffix) = 0 THEN <<>> ELSE SubSeq(stripped, 1, Len(stripped) - Len(suffix))

\* the single-line loop of _extract_header_content (lines 183-187)
RECURSIVE SingleLineContent(_, _, _)
SingleLineContent(lines, i, cs) ==
    IF i > Len(lines) THEN <<>>
    ELSE LET stripped == Strip(lines[i]) IN
         (IF StartsWith(stripped, cs.start) THEN <<AfterPrefix(stripped, cs.start)>> ELSE <<>>)
         \o SingleLineContent(lines, i + 1, cs)

\* the multi-line loop of _extract_header_content (lines 190-211)
RECURSIVE MultiLineContent(_, _, _)
MultiLineContent(lines, i, cs) ==
    IF i > Len(lines) THEN <<>>
    ELSE LET stripped == Strip(lines[i])
             mid      == Strip(cs.middle)
         IN
         IF i = 1 /\ StartsWith(stripped, cs.start)
         THEN LET content == AfterPrefix(stripped, cs.start) IN
              (IF content # <<>> THEN <<content>> ELSE <<>>) \o MultiLineContent(lines, i + 1, cs)
         ELSE IF EndsWith(stripped, cs.end)
         THEN LET c1      == Strip(BeforeSuffix(stripped, cs.end))
                  content == IF StartsWith(c1, mid) THEN AfterPrefix(c1, mid) ELSE c1
              IN  IF content # <<>> THEN <<content>> ELSE <<>>
         ELSE IF StartsWith(stripped, mid)
         THEN <<AfterPrefix(stripped, mid)>> \o MultiLineContent(lines, i + 1, cs)
         ELSE MultiLineContent(lines, i + 1, cs)

_extract_header_content(header, cs) ==
    LET lines == Split(header) IN
    IF cs.start = cs.middle
    THEN Join(SingleLineContent(lines, 1, cs))
    ELSE Join(MultiLineContent(lines, 1, cs))

\* the single-line loop of remove_existing_header (lines 246-253): header_end_idx
RECURSIVE MatchHeaderLines(_, _, _, _)
MatchHeaderLines(lines, header_end_idx, header_lines, k) ==
    IF k > Len(header_lines) THEN header_end_idx
    ELSE IF header_end_idx <= Len(lines)
            /\ Strip(lines[header_end_idx]) = Strip(header_lines[k])
    THEN MatchHeaderLines(lines, header_end_idx + 1, header_lines, k + 1)
    ELSE header_end_idx

\* RemoveEndTest with the line stripped before the test, as the detector does
RemoveEndTestStripped(rawLine, cs) == Contains(Strip(rawLine), cs.end)

\* the test of the multi-line loop of remove_existing_header that ends the block
RemoveEndTest(rawLine, cs) == Contains(rawLine, cs.end)

\* the multi-line loop of remove_existing_header (lines 264-268): start_idx after it
RECURSIVE PastBlockEnd(_, _, _)
PastBlockEnd(lines, start_idx, cs) ==
    IF start_idx > Len(lines) THEN start_idx
    ELSE IF RemoveEndTest(lines[start_idx], cs) THEN start_idx + 1
    ELSE PastBlockEnd(lines, start_idx + 1, cs)

\* RemainingFrom with the index one too far: the first line after the header and
\* its blank lines is dropped as well
RemainingFromOneTooFar(lines, start_idx, header_lines, cs) ==
    1 + (IF cs.start = cs.middle
         THEN SkipEmpty(lines, MatchHeaderLines(lines, start_idx, header_lines, 1))
         ELSE SkipEmpty(lines, PastBlockEnd(lines, start_idx, cs)))

\* the line index (1-based) from which remove_existing_header keeps the content,
\* once a header was detected and a non-blank line follows the shebang
RemainingFrom(lines, start_idx, header_lines, cs) ==
    IF cs.start = cs.middle
    THEN SkipEmpty(lines, MatchHeaderLines(lines, start_idx, header_lines, 1))
    ELSE IF StartsWith(Strip(lines[start_idx]), cs.start)
         THEN SkipEmpty(lines, PastBlockEnd(lines, start_idx, cs))
         ELSE start_idx

\* the shebang line remove_existing_header keeps at the top
preserved_lines(lines) == IF IsShebang(lines[1]) THEN <<lines[1]>> ELSE <<>>

remove_existing_header(file_content, cs) ==
    LET existing_header == extract_existing_header(file_content, cs) IN
    IF ~Truthy(existing_header) THEN file_content
    ELSE LET lines        == Split(file_content)
             header_lines == Split(existing_header)
             start_idx    == SkipEmpty(lines, AfterShebang(lines))
         IN
         IF start_idx > Len(lines) THEN file_content
         ELSE LET from == RemainingFrom(lines, start_idx, header_lines, cs)
                  remaining_lines == IF from <= Len(lines)
                                     THEN SubSeq(lines, from, Len(lines)) ELSE <<>>
              IN  Join(preserved_lines(lines) \o remaining_lines)

\* ShebangRemaining without the removal of the shebang line
ShebangRemainingKeepsShebang(shebang, content_without_header) ==
    LStripNL(content_without_header)

\* process_file lines 310-316: the content that follows the new header when the
\* original content starts with a shebang
ShebangRemaining(shebang, content_without_header) ==
    LET rc == IF StartsWith(content_without_header, shebang)
              THEN LStripNL(DropPrefix(content_without_header, Len(shebang)))
              ELSE content_without_header
    IN  LStripNL(rc)

\* process_file lines 295-326: new_content from original_content, the comment style
\* and the formatted template
new_content(original_content, formatted_template, cs) ==
    LET new_header             == create_header_comment(formatted_template, cs)
        content_without_header == remove_existing_header(original_content, cs)
        lines                  == Split(original_content)
    IN
    IF IsShebang(lines[1])
    THEN LET shebang == lines[1]
             remaining_content == ShebangRemaining(shebang, content_without_header)
         IN  shebang \o <<NL>> \o new_header \o <<NL>> \o remaining_content
    ELSE LET remaining_content == LStripNL(content_without_header)
         IN  new_header \o <<NL>> \o remaining_content

\* str(n) for a natural number: its decimal digits
Digit(d) == CASE d = 0 -> "0" [] d = 1 -> "1" [] d = 2 -> "2" [] d = 3 -> "3" [] d = 4 -> "4"
              [] d = 5 -> "5" [] d = 6 -> "6" [] d = 7 -> "7" [] d = 8 -> "8" [] d = 9 -> "9"

RECURSIVE Str(_)
Str(n) == IF n < 10 THEN <<Digit(n)>> ELSE Str(n \div 10) \o <<Digit(n % 10)>>

\* A template is a sequence of characters and replacement fields; a field is one
\* element, written with its braces.
YearField   == "{year}"
HolderField == "{copyright_holder}"
OtherField  == "{name}"

\* load_template: None models the missing file (FileNotFoundError is raised)
load_template(template_file) ==
    IF template_file = None THEN None ELSE Strip(template_file)

\* str.format raises KeyError on a field other than the two it is given
FormatRaises(template) == \E i \in 1..Len(template) : template[i] = OtherField

RECURSIVE format_template(_, _, _)
format_template(template, year, holder) ==
    IF template = <<>> THEN <<>>
    ELSE (CASE Head(template) = YearField   -> Str(year)
            [] Head(template) = HolderField -> holder
            [] OTHER -> <<Head(template)>>)
         \o format_template(Tail(template), year, holder)

----------------------------------------------------------------------------
(* State                                                                    *)

VARIABLES
    \* LicenseHeaderManager fields
    template_file,      \* the content of the template file, or None when it is missing
    copyright_holder,
    current_year,
    \* repeated process_file runs on one file
    comment_style,      \* the style registered for the file's suffix
    disk,               \* the file's content on disk
    original_content,   \* what the last run read
    changed,            \* what the last run returned
    runs,               \* the number of runs so far
    first_content,      \* the content before the first run
    parts,              \* how first_content was put together
    \* formatter / detector / content extractor applied to one text
    w_pc, w_text, w_body, w_header, w_detected, w_content,
    \* main(): the batch loop
    files, pc, idx, modified_files, opened_read, opened_write, returned, exit_code

mgrVars   == <<template_file, copyright_holder, current_year>>
runVars   == <<comment_style, disk, original_content, changed, runs, first_content, parts>>
wrapVars  == <<w_pc, w_text, w_body, w_header, w_detected, w_content>>
batchVars == <<files, pc, idx, modified_files, opened_read, opened_write, returned, exit_code>>
vars      == <<mgrVars, runVars, wrapVars, batchVars>>

\* the part of the state a specification does not use
RunIdle ==
    /\ disk = <<>> /\ original_content = <<>> /\ changed = FALSE /\ runs = 0
    /\ first_content = <<>> /\ parts = [shebang |-> FALSE, old |-> None, body |-> <<>>]
WrapIdle ==
    /\ w_pc = "idle" /\ w_text = <<>> /\ w_body = <<>>
    /\ w_header = None /\ w_detected = None /\ w_content = None
BatchIdle ==
    /\ files = <<>> /\ pc = "idle" /\ idx = 0 /\ modified_files = <<>>
    /\ opened_read = {} /\ opened_write = {} /\ returned = <<>> /\ exit_code = -1

----------------------------------------------------------------------------
(* Inputs                                                                   *)

MaxBodyLines == 2
MaxRuns      == 3
MaxFiles     == 2

NoCustom == [e \in {} |-> Hash]

\* one suffix for each distinct style of DEFAULT_MAPPINGS
Suffixes == {".py", ".c", ".html", ".vhdl", ".v", ".md"}

Holder == <<"A", "c">>
Year   == 2024

\* "{year} {copyright_holder}\n": the trailing newline is stripped by load_template
TemplatePlain == <<YearField, " ", HolderField, NL>>
\* two paragraphs, the second indented
TemplateTwo   == <<"a", NL, NL, " ", "b">>
\* a text that contains the end marker of every block style
TemplateEnd   == <<"e", " ", "*", "/", "-", "-", ">">>
GoodTemplates == {TemplatePlain, TemplateTwo, TemplateEnd}

Rendered(t) == format_template(load_template(t), Year, Holder)

\* the text of a header already in the file
OldPlain == <<"o">>
OldEnd   == <<"o", " ", "*", "/", "-", "-", ">", " ", "p">>
OldTexts == {OldPlain, OldEnd}

ShebangLine == <<"#", "!", "s">>

\* a comment of another style than cs
ForeignComment(cs) == IF cs.start = <<"#">> THEN <<"/", "/", " ", "z">> ELSE <<"#", " ", "z">>

\* the lines a file body is made of
LineKinds(cs) ==
    { <<>>, <<" ">>, <<"x">>, cs.start \o <<" ", "k">>, ForeignComment(cs) }
    \cup (IF cs.start = cs.middle THEN {} ELSE { PrefixLine(cs.middle, <<"m">>), cs.end })

RECURSIVE SeqsUpTo(_, _)
SeqsUpTo(S, n) ==
    IF n = 0 THEN { <<>> }
    ELSE LET shorter == SeqsUpTo(S, n - 1)
         IN  shorter \cup { Append(q, x) : q \in {r \in shorter : Len(r) = n - 1}, x \in S }

\* the file: [shebang line] [header made from an old text] body lines
Assemble(p, cs) ==
    Join( (IF p.shebang THEN <<ShebangLine>> ELSE <<>>)
          \o (IF p.old = None THEN <<>> ELSE Split(create_header_comment(p.old, cs)))
          \o p.body )

----------------------------------------------------------------------------
(* Spec: process_file run again and again on one file with the same         *)
(* template, holder and year; no I/O error.                                 *)

Init ==
    /\ template_file \in GoodTemplates
    /\ copyright_holder = Holder
    /\ current_year = Year
    /\ \E suffix \in Suffixes :
          comment_style = get_comment_style(Mappings(NoCustom), suffix)
    /\ \E sb \in BOOLEAN, o \in OldTexts \cup {None},
          b \in SeqsUpTo(LineKinds(comment_style), MaxBodyLines) :
          parts = [shebang |-> sb, old |-> o, body |-> b]
    /\ first_content = Assemble(parts, comment_style)
    /\ disk = first_content
    /\ original_content = <<>>
    /\ changed = FALSE
    /\ runs = 0
    /\ WrapIdle /\ BatchIdle

\* process_file lines 292-326 on the content read from disk
Processed(content) ==
    new_content(content,
                format_template(load_template(template_file), current_year, copyright_holder),
                comment_style)

\* One run of process_file without I/O error.  When new_content != original_content
\* the file is written and True is returned; otherwise nothing is written and
\* False is returned.
Process ==
    /\ runs < MaxRuns
    /\ LET new == Processed(disk) IN
          /\ disk' = new
          /\ changed' = (new # disk)
    /\ original_content' = disk
    /\ runs' = runs + 1
    /\ UNCHANGED <<mgrVars, comment_style, first_content, parts, wrapVars, batchVars>>

Next == Process

Spec == Init /\ [][Next]_vars

----------------------------------------------------------------------------
(* The header block of a file as the design describes it, used to state     *)
(* the properties below.                                                    *)

IsBlank(line) == \A i \in 1..Len(line) : line[i] \in Whitespace

IsComment(line, cs) == StartsWith(Strip(line), cs.start)

\* the first line after the optional shebang and the blank lines, or 0
HeaderFirst(lines) ==
    LET from == IF IsShebang(lines[1]) THEN 2 ELSE 1
        cand == {i \in from..Len(lines) : ~IsBlank(lines[i])}
    IN  IF cand = {} THEN 0 ELSE CHOOSE i \in cand : \A j \in cand : i <= j

HasHeaderBlock(lines, cs) ==
    HeaderFirst(lines) # 0 /\ IsComment(lines[HeaderFirst(lines)], cs)

\* the last line of the header block.  Line-oriented: the last comment line of the
\* maximal run of comment and blank lines.  Block-oriented: the first line that
\* contains the end marker, or the last line of the file when there is none.
HeaderLast(lines, cs) ==
    LET f == HeaderFirst(lines) IN
    IF cs.start = cs.middle
    THEN CHOOSE j \in f..Len(lines) :
            /\ IsComment(lines[j], cs)
            /\ \A k \in f..j : IsComment(lines[k], cs) \/ IsBlank(lines[k])
            /\ \A m \in (j + 1)..Len(lines) :
                  IsComment(lines[m], cs) =>
                     \E k \in (j + 1)..m : ~IsComment(lines[k], cs) /\ ~IsBlank(lines[k])
    ELSE LET ends == {j \in f..Len(lines) : Contains(lines[j], cs.end)}
         IN  IF ends = {} THEN Len(lines) ELSE CHOOSE j \in ends : \A k \in ends : j <= k

\* the lines strictly after the header block
BodyAfter(lines, cs) == SubSeq(lines, HeaderLast(lines, cs) + 1, Len(lines))

\* ls without its leading blank lines
RECURSIVE DropBlank(_)
DropBlank(ls) == IF ls # <<>> /\ IsBlank(Head(ls)) THEN DropBlank(Tail(ls)) ELSE ls

\* the header process_file puts into the file
NewHeader == create_header_comment(Rendered(template_file), comment_style)

\* a wrapped header is well formed when, in the block form, no line before the last
\* contains the end marker
WellFormed(header, cs) ==
    LET hl == Split(header) IN
    cs.start = cs.middle \/ \A i \in 1..(Len(hl) - 1) : ~Contains(hl[i], cs.end)

----------------------------------------------------------------------------
(* Properties of repeated runs (specification Spec)                         *)

\* C1: process applied twice in succession leaves after the second application the
\* content the first one left, and the second application reports changed = false.
C1_Idempotent == runs = 2 => (changed = FALSE /\ disk = original_content)

\* C2 as stated: the lines strictly after the header block of the file a run reads
\* are all still there, unaltered, at the end of the file the run leaves.
C2_BodyIdentical ==
    (runs >= 1 /\ HasHeaderBlock(Split(original_content), comment_style)) =>
        EndsWith(Split(disk), BodyAfter(Split(original_content), comment_style))

\* C2 amended: the lines after the header block and after the blank lines that
\* directly follow it are all still there, unaltered, at the end of the file.
C2_BodyAfterBlanksIdentical ==
    (runs >= 1 /\ HasHeaderBlock(Split(original_content), comment_style)) =>
        EndsWith(Split(disk), DropBlank(BodyAfter(Split(original_content), comment_style)))

C2_Witness ==
    /\ runs = 1 /\ changed /\ parts.old = OldPlain
    /\ HasHeaderBlock(Split(original_content), comment_style)
    /\ LET b == BodyAfter(Split(original_content), comment_style)
       IN  Len(b) = 2 /\ b[1] = <<"x">> /\ b[2] = ForeignComment(comment_style)

\* C3: when the file a run reads starts with a shebang line, the file it leaves has
\* that same first line, then the lines of the new header, then lines that end the
\* file read (or one empty line when nothing remains); the body that followed the
\* header block is among them.
C3_ShebangPreserved ==
    (runs >= 1 /\ IsShebang(Split(original_content)[1])) =>
        LET ol   == Split(original_content)
            nl   == Split(disk)
            h    == Split(NewHeader)
            tail == SubSeq(nl, 2 + Len(h), Len(nl))
        IN  /\ nl[1] = ol[1]
            /\ Len(nl) >= 1 + Len(h)
            /\ SubSeq(nl, 2, 1 + Len(h)) = h
            /\ tail = << <<>> >> \/ EndsWith(Tail(ol), tail)
            /\ IF HasHeaderBlock(ol, comment_style)
               THEN EndsWith(tail, DropBlank(BodyAfter(ol, comment_style)))
               ELSE Join(tail) = LStripNL(Join(Tail(ol)))

C3_Witness ==
    /\ runs = 1 /\ parts.shebang /\ parts.old = OldPlain /\ parts.body = << <<"x">> >>
    /\ comment_style.start # comment_style.middle
    /\ Split(disk)[1] = ShebangLine

\* C5: a file made of a well-formed header wrap(old, D), a newline and a body whose
\* first line is neither blank nor a comment of D becomes wrap(new, D), a newline and
\* the same body.
C5_Pre ==
    /\ ~parts.shebang /\ parts.old # None
    /\ WellFormed(create_header_comment(parts.old, comment_style), comment_style)
    /\ parts.body # <<>>
    /\ ~IsBlank(parts.body[1]) /\ ~IsComment(parts.body[1], comment_style)

C5_StaleHeaderReplaced ==
    (runs = 1 /\ C5_Pre) => disk = NewHeader \o <<NL>> \o Join(parts.body)

C5_Witness ==
    /\ runs = 1 /\ C5_Pre /\ changed /\ comment_style = CBlock
    /\ template_file = TemplatePlain /\ Len(parts.body) = 2

\* C10: repeated runs reach a run that reports changed = false; within the runs of
\* the model, the last one reports changed = false.
C10_Converges == runs = MaxRuns => changed = FALSE

----------------------------------------------------------------------------
(* SpecWrap: create_header_comment, extract_existing_header and             *)
(* _extract_header_content applied in turn to one text.                     *)

\* a style passed to CommentRegistry(custom_mappings): a line comment with no end marker
Dashes == [start |-> <<"-", "-">>, middle |-> <<"-", "-">>, end |-> <<>>]
Custom == [e \in {".sql"} |-> Dashes]

\* bodies whose first line is neither blank nor a comment of any style of the model
WrapBodies == { <<>>, << <<"x">> >>, << <<"x">>, <<>> >>, << <<"x">>, <<"y">>, <<>> >> }

\* the file the detector is given: the header, then a newline and the body if any
WrapFile == IF w_body = <<>> THEN w_header ELSE w_header \o <<NL>> \o Join(w_body)

InitWrap ==
    /\ template_file \in GoodTemplates
    /\ copyright_holder = Holder
    /\ current_year = Year
    /\ \E suffix \in Suffixes \cup {".sql"} :
          comment_style = get_comment_style(Mappings(Custom), suffix)
    /\ w_pc = "start"
    /\ w_text = format_template(load_template(template_file), current_year, copyright_holder)
    /\ w_body \in WrapBodies
    /\ w_header = None /\ w_detected = None /\ w_content = None
    /\ RunIdle /\ BatchIdle

Wrap ==
    /\ w_pc = "start"
    /\ w_header' = create_header_comment(w_text, comment_style)
    /\ w_pc' = "wrapped"
    /\ UNCHANGED <<mgrVars, runVars, w_text, w_body, w_detected, w_content, batchVars>>

Detect ==
    /\ w_pc = "wrapped"
    /\ w_detected' = extract_existing_header(WrapFile, comment_style)
    /\ w_pc' = "detected"
    /\ UNCHANGED <<mgrVars, runVars, w_text, w_body, w_header, w_content, batchVars>>

Decomment ==
    /\ w_pc = "detected"
    /\ w_detected # None
    /\ w_content' = _extract_header_content(w_detected, comment_style)
    /\ w_pc' = "done"
    /\ UNCHANGED <<mgrVars, runVars, w_text, w_body, w_header, w_detected, batchVars>>

NextWrap == Wrap \/ Detect \/ Decomment

SpecWrap == InitWrap /\ [][NextWrap]_vars

\* text with the trailing whitespace of every line removed
NormalizeTrailing(text) ==
    LET ls == Split(text) IN Join([i \in 1..Len(ls) |-> RStrip(ls[i])])

\* C4: detecting the header in wrap(R, D) and removing the comment markers from the
\* detected block gives R back, up to trailing whitespace, with no line more or less.
C4_RoundTrip ==
    (w_pc = "done" /\ w_body = <<>>) => w_content = NormalizeTrailing(w_text)

\* C8: in wrap(text, D) + newline + body, where the body starts with a line that is
\* neither blank nor a comment of D and the header is well formed, detect returns
\* exactly the lines of wrap(text, D) and no body line.
C8_DetectStopsAtEnd ==
    (w_pc \in {"detected", "done"} /\ w_body # <<>>
        /\ comment_style \in {Hash, CBlock, Html, Vhdl, Slashes, Mkdown}
        /\ WellFormed(w_header, comment_style))
    => w_detected = w_header

\* C9: wrap takes the line-oriented form exactly for the styles detect treats as
\* line-oriented (start = middle, whatever the end marker): every line of the text
\* prefixed with start and a space, and no separate start or end line; the other
\* styles get the block form.
C9_SameClassification ==
    w_pc # "start" =>
        LET ls == Split(w_text) IN
        IF comment_style.start = comment_style.middle
        THEN w_header = Join(PrefixAll(comment_style.start, ls))
        ELSE w_header = Join(<<comment_style.start>> \o PrefixAll(comment_style.middle, ls)
                             \o <<comment_style.end>>)

----------------------------------------------------------------------------
(* SpecBatch: main() over a list of files.                                  *)

\* a reference to an unknown field: str.format raises KeyError
TemplateMalformed == <<"c", " ", OtherField>>

BatchTemplates == {TemplatePlain, TemplateMalformed, None}

HashHeaderPlain == create_header_comment(Rendered(TemplatePlain), Hash)

\* candidate: os.path.isfile and should_process_file both hold.
\* readable: open(...).read() succeeds.
\* writable: "ok", "open_fails" (open(path, "w") raises and the file is untouched) or
\*           "write_fails" (the file is opened, hence truncated, and f.write raises).
FileKinds ==
    { [suffix |-> ".py",  candidate |-> TRUE,  readable |-> TRUE,  writable |-> "ok",
       content |-> <<"x">>],
      [suffix |-> ".PY",  candidate |-> TRUE,  readable |-> TRUE,  writable |-> "ok",
       content |-> HashHeaderPlain \o <<NL, "x">>],
      [suffix |-> ".txt", candidate |-> TRUE,  readable |-> TRUE,  writable |-> "ok",
       content |-> <<"x">>],
      [suffix |-> ".c",   candidate |-> TRUE,  readable |-> FALSE, writable |-> "ok",
       content |-> <<"x">>],
      [suffix |-> ".c",   candidate |-> TRUE,  readable |-> TRUE,  writable |-> "open_fails",
       content |-> <<"x">>],
      [suffix |-> ".py",  candidate |-> TRUE,  readable |-> TRUE,  writable |-> "write_fails",
       content |-> <<"x">>],
      [suffix |-> ".py",  candidate |-> FALSE, readable |-> TRUE,  writable |-> "ok",
       content |-> <<"x">>] }

InitBatch ==
    /\ template_file \in BatchTemplates
    /\ copyright_holder = Holder
    /\ current_year = Year
    /\ comment_style = NoStyle
    /\ files \in SeqsUpTo(FileKinds, MaxFiles)
    /\ pc = "loop"
    /\ idx = 1
    /\ modified_files = <<>>
    /\ opened_read = {} /\ opened_write = {}
    /\ returned = <<>>
    /\ exit_code = -1
    /\ RunIdle /\ WrapIdle

\* what process_file returns after "Error reading" (line 290)
ReadErrorReturn == FALSE

\* WriteErrorReturn when the failed write is reported as a change
WriteErrorReturnsTrue == TRUE

\* what process_file returns after "Error writing" (line 337)
WriteErrorReturn == FALSE

\* process_file has returned r for files[idx]: main records it and goes on.
\* returned[i] tells whether process_file was called for files[i] and what it returned.
Return(r) ==
    /\ returned' = Append(returned, [called |-> TRUE, value |-> r])
    /\ modified_files' = IF r = TRUE THEN Append(modified_files, idx) ELSE modified_files
    /\ idx' = idx + 1
    /\ pc' = "loop"

\* main lines 402-406: the file is not a regular file or is filtered out
SkipFile ==
    /\ pc = "loop" /\ idx <= Len(files)
    /\ ~files[idx].candidate
    /\ returned' = Append(returned, [called |-> FALSE, value |-> FALSE])
    /\ idx' = idx + 1
    /\ UNCHANGED <<mgrVars, runVars, wrapVars, files, pc, modified_files,
                   opened_read, opened_write, exit_code>>

\* process_file lines 280-283: the style lookup
Lookup ==
    /\ pc = "loop" /\ idx <= Len(files)
    /\ files[idx].candidate
    /\ comment_style' = get_comment_style(Mappings(NoCustom), files[idx].suffix)
    /\ IF comment_style' = NoStyle
       THEN Return(FALSE)
       ELSE /\ pc' = "read"
            /\ UNCHANGED <<returned, modified_files, idx>>
    /\ UNCHANGED <<mgrVars, disk, original_content, changed, runs, first_content, parts,
                   wrapVars, files, opened_read, opened_write, exit_code>>

\* process_file lines 285-290: the file is read
ReadFile ==
    /\ pc = "read"
    /\ IF files[idx].readable
       THEN /\ opened_read' = opened_read \cup {idx}
            /\ original_content' = files[idx].content
            /\ pc' = "template"
            /\ UNCHANGED <<returned, modified_files, idx>>
       ELSE /\ Return(ReadErrorReturn)
            /\ UNCHANGED <<opened_read, original_content>>
    /\ UNCHANGED <<mgrVars, comment_style, disk, changed, runs, first_content, parts,
                   wrapVars, files, opened_write, exit_code>>

\* process_file lines 292-294 when load_template or format_template raises: nothing
\* in process_file or main catches the exception
TemplateRaises ==
    /\ pc = "template"
    /\ load_template(template_file) = None \/ FormatRaises(load_template(template_file))
    /\ pc' = "aborted"
    /\ UNCHANGED <<mgrVars, runVars, wrapVars, files, idx, modified_files,
                   opened_read, opened_write, returned, exit_code>>

\* process_file lines 292-339 otherwise: the new content is computed and, when it
\* differs from what was read, written back
Rewrite ==
    /\ pc = "template"
    /\ load_template(template_file) # None /\ ~FormatRaises(load_template(template_file))
    /\ LET new == Processed(original_content) IN
       IF new = original_content
       THEN /\ Return(FALSE)
            /\ UNCHANGED <<files, opened_write>>
       ELSE IF files[idx].writable = "ok"
       THEN /\ files' = [files EXCEPT ![idx].content = new]
            /\ opened_write' = opened_write \cup {idx}
            /\ Return(TRUE)
       ELSE IF files[idx].writable = "write_fails"
       THEN /\ files' = [files EXCEPT ![idx].content = <<>>]
            /\ opened_write' = opened_write \cup {idx}
            /\ Return(WriteErrorReturn)
       ELSE /\ Return(WriteErrorReturn)
            /\ UNCHANGED <<files, opened_write>>
    /\ UNCHANGED <<mgrVars, runVars, wrapVars, opened_read, exit_code>>

\* main lines 411-416: the exit code
Finish ==
    /\ pc = "loop" /\ idx > Len(files)
    /\ exit_code' = IF modified_files # <<>> THEN 1 ELSE 0
    /\ pc' = "done"
    /\ UNCHANGED <<mgrVars, runVars, wrapVars, files, idx, modified_files,
                   opened_read, opened_write, returned>>

NextBatch == SkipFile \/ Lookup \/ ReadFile \/ TemplateRaises \/ Rewrite \/ Finish

SpecBatch == InitBatch /\ [][NextBatch]_vars

Registered(f) == get_comment_style(Mappings(NoCustom), f.suffix) # NoStyle

TemplateBad == template_file = None \/ FormatRaises(load_template(template_file))

\* C6: when the template cannot be loaded or rendered, the run aborts without any
\* candidate file having been opened, for reading or for writing.
C6_AbortBeforeFileIO == pc = "aborted" => (opened_read = {} /\ opened_write = {})

\* C7: a file with no registered style, a read error or a write error returns False,
\* is not counted as modified and aborts nothing; every later file is still
\* processed; a file with no registered style is neither read nor written.
C7_FailuresAreLocal ==
    /\ pc = "aborted" => TemplateBad
    /\ \A i \in 1..Len(files) :
          ~Registered(files[i]) => i \notin opened_read \cup opened_write
    /\ \A i \in 1..Len(returned) :
          (files[i].candidate
             /\ (~Registered(files[i]) \/ ~files[i].readable \/ files[i].writable # "ok"))
          => (returned[i].value = FALSE /\ \A k \in 1..Len(modified_files) : modified_files[k] # i)
    /\ pc = "done" =>
          /\ Len(returned) = Len(files)
          /\ \A i \in 1..Len(files) :
                (files[i].candidate /\ Registered(files[i]) /\ files[i].readable)
                => i \in opened_read
          /\ \A i \in 1..Len(files) :
                (returned[i].value = TRUE) <=> (\E k \in 1..Len(modified_files) : modified_files[k] = i)
          /\ \A i \in 1..Len(files) :
                (files[i].candidate /\ Registered(files[i]) /\ files[i].readable
                 /\ files[i].writable = "ok")
                => /\ StartsWith(files[i].content,
                                 create_header_comment(Rendered(template_file),
                                     get_comment_style(Mappings(NoCustom), files[i].suffix))
                                 \o <<NL>>)
                   /\ returned[i].value = (i \in opened_write)

C7_Witness ==
    /\ pc = "done" /\ Len(files) = 2 /\ exit_code = 1
    /\ files[1].writable = "write_fails" /\ 1 \in opened_write /\ returned[1] = [called |-> TRUE, value |-> FALSE]
    /\ returned[2].value = TRUE /\ modified_files = <<2>>

====
